---- MODULE Spec2Model ----
(***************************************************************************)
(* A model of nlsh.py, the natural-language shell helper: the pipeline     *)
(* query_ollama -> process_output -> present_menu -> execute_command and   *)
(* the global command_history.                                             *)
(*                                                                         *)
(* Text is a sequence of lexemes.  A lexeme is one punctuation or          *)
(* whitespace character, or a word (a run of letters such as "ls" or       *)
(* "command") that the regular expression, the JSON decoder, str.strip and *)
(* str.split all treat as an opaque run of non-space characters.           *)
(***************************************************************************)
EXTENDS Integers, Sequences, FiniteSets, TLC

(***************************************************************************)
(* Text helpers: str.strip(), str.split()                                  *)
(***************************************************************************)

\* The whitespace of the model's alphabet; \s, str.strip, str.split and the
\* JSON decoder agree on these two characters.
Ws == {" ", "\n"}

\* The first index >= i of t that holds no whitespace (Len(t)+1 when none).
RECURSIVE SkipWs(_, _)
SkipWs(t, i) ==
    IF i <= Len(t) /\ t[i] \in Ws THEN SkipWs(t, i + 1) ELSE i

\* The last index <= i of t that holds no whitespace (0 when none).
RECURSIVE SkipWsBack(_, _)
SkipWsBack(t, i) ==
    IF i >= 1 /\ t[i] \in Ws THEN SkipWsBack(t, i - 1) ELSE i

\* str.strip(): leading and trailing whitespace removed.
Strip(t) ==
    LET a == SkipWs(t, 1)
        b == SkipWsBack(t, Len(t))
    IN  IF a > b THEN <<>> ELSE SubSeq(t, a, b)

\* The first index >= i of t that holds whitespace (Len(t)+1 when none).
RECURSIVE SkipWord(_, _)
SkipWord(t, i) ==
    IF i <= Len(t) /\ t[i] \notin Ws THEN SkipWord(t, i + 1) ELSE i

\* str.split(): the whitespace-separated tokens of t, from index i on.
RECURSIVE SplitFrom(_, _)
SplitFrom(t, i) ==
    LET a == SkipWs(t, i)
        b == SkipWord(t, a)
    IN  IF a > Len(t) THEN <<>>
        ELSE <<SubSeq(t, a, b - 1)>> \o SplitFrom(t, b)

Split(t) == SplitFrom(t, 1)

(***************************************************************************)
(* Python values: str, list, dict, None                                    *)
(***************************************************************************)

PyNone == [t |-> "None", s |-> <<>>, keys |-> <<>>, items |-> <<>>]
PyStr(s) == [t |-> "str", s |-> s, keys |-> <<>>, items |-> <<>>]
PyList(items) == [t |-> "list", s |-> <<>>, keys |-> <<>>, items |-> items]
\* A dict in insertion order: keys[i] maps to items[i].
PyDict(keys, items) == [t |-> "dict", s |-> <<>>, keys |-> keys, items |-> items]

\* dict item assignment as the JSON decoder does it: a repeated key keeps its
\* first position and takes the last value.
DictPut(d, k, v) ==
    IF \E i \in 1..Len(d.keys) : d.keys[i] = k
    THEN LET i == CHOOSE i \in 1..Len(d.keys) : d.keys[i] = k
         IN  PyDict(d.keys, [d.items EXCEPT ![i] = v])
    ELSE PyDict(Append(d.keys, k), Append(d.items, v))

HasKey(d, k) == \E i \in 1..Len(d.keys) : d.keys[i] = k

DictGet(d, k) == d.items[CHOOSE i \in 1..Len(d.keys) : d.keys[i] = k]

(***************************************************************************)
(* json.loads                                                              *)
(***************************************************************************)

JsonFail == [ok |-> FALSE, val |-> PyNone, next |-> 0]
JsonOk(v, n) == [ok |-> TRUE, val |-> v, next |-> n]

\* A JSON string starting at the quote t[i]: up to the next quote.  The
\* alphabet holds no backslash; a raw control character inside a string is
\* an error (strict mode).
ParseString(t, i) ==
    LET closing == {k \in (i + 1)..Len(t) : t[k] = "\""}
    IN  IF closing = {} THEN JsonFail
        ELSE LET k == CHOOSE k \in closing : \A m \in closing : k <= m
                 body == SubSeq(t, i + 1, k - 1)
             IN  IF \E m \in 1..Len(body) : body[m] = "\n"
                 THEN JsonFail
                 ELSE JsonOk(PyStr(body), k + 1)

RECURSIVE ParseValue(_, _), ParseItems(_, _, _), ParsePairs(_, _, _)

\* After "[" and whitespace: the empty array, or the elements.
OpenArray(t, j) ==
    IF j <= Len(t) /\ t[j] = "]"
    THEN JsonOk(PyList(<<>>), j + 1)
    ELSE ParseItems(t, j, <<>>)

\* After "{" and whitespace: the empty object, or the members.
OpenObject(t, j) ==
    IF j <= Len(t) /\ t[j] = "}"
    THEN JsonOk(PyDict(<<>>, <<>>), j + 1)
    ELSE ParsePairs(t, j, PyDict(<<>>, <<>>))

\* One JSON value starting at t[i].  The alphabet holds no digit and no
\* word that is a JSON literal, so every other lexeme is a decode error.
ParseValue(t, i) ==
    IF i > Len(t) THEN JsonFail
    ELSE IF t[i] = "\"" THEN ParseString(t, i)
    ELSE IF t[i] = "[" THEN OpenArray(t, SkipWs(t, i + 1))
    ELSE IF t[i] = "{" THEN OpenObject(t, SkipWs(t, i + 1))
    ELSE JsonFail

\* After the elements acc, at t[j]: "]" ends the array, "," continues it.
ItemSeparator(t, acc, j) ==
    IF j > Len(t) THEN JsonFail
    ELSE IF t[j] = "]" THEN JsonOk(PyList(acc), j + 1)
    ELSE IF t[j] = "," THEN ParseItems(t, SkipWs(t, j + 1), acc)
    ELSE JsonFail

\* After the element v was decoded.
AfterItem(t, acc, v) ==
    IF ~v.ok THEN JsonFail
    ELSE ItemSeparator(t, Append(acc, v.val), SkipWs(t, v.next))

\* The elements of an array, the next one starting at t[i].
ParseItems(t, i, acc) == AfterItem(t, acc, ParseValue(t, i))

\* After the members acc, at t[j]: "}" ends the object, "," continues it.
MemberSeparator(t, acc, j) ==
    IF j > Len(t) THEN JsonFail
    ELSE IF t[j] = "}" THEN JsonOk(acc, j + 1)
    ELSE IF t[j] = "," THEN ParsePairs(t, SkipWs(t, j + 1), acc)
    ELSE JsonFail

\* After the value v of the member named key was decoded.
AfterMember(t, acc, key, v) ==
    IF ~v.ok THEN JsonFail
    ELSE MemberSeparator(t, DictPut(acc, key, v.val), SkipWs(t, v.next))

\* After a member's key, at t[c]: ":" and the value.
MemberColon(t, acc, key, c) ==
    IF c > Len(t) \/ t[c] # ":" THEN JsonFail
    ELSE AfterMember(t, acc, key, ParseValue(t, SkipWs(t, c + 1)))

\* After the key k was decoded.
AfterKey(t, acc, k) ==
    IF ~k.ok THEN JsonFail
    ELSE MemberColon(t, acc, k.val.s, SkipWs(t, k.next))

\* The members of an object, the next key starting at t[i].
ParsePairs(t, i, acc) ==
    IF i > Len(t) \/ t[i] # "\"" THEN JsonFail
    ELSE AfterKey(t, acc, ParseString(t, i))

\* The value decoded, when nothing but whitespace follows it.
WholeText(t, v) ==
    IF v.ok /\ SkipWs(t, v.next) = Len(t) + 1 THEN v ELSE JsonFail

\* json.loads(t): one value, whitespace around it, nothing after it.
JsonLoads(t) == WholeText(t, ParseValue(t, SkipWs(t, 1)))

(***************************************************************************)
(* re.search(r"\[\s*{.*?}\s*\]", raw_output, re.DOTALL)                    *)
(***************************************************************************)

\* The index of the "]" that \s*\] matches after a "}" at t[k], or 0.
ClosesAt(t, k) ==
    LET m == SkipWs(t, k + 1)
    IN  IF m <= Len(t) /\ t[m] = "]" THEN m ELSE 0

\* The end of the match that starts at t[i], or 0: "[", whitespace, "{",
\* then the lazy .*? stops at the first "}" that whitespace and "]" follow.
MatchEnd(t, i) ==
    LET j == SkipWs(t, i + 1)
    IN  IF t[i] # "[" \/ j > Len(t) \/ t[j] # "{" THEN 0
        ELSE LET ends == {k \in (j + 1)..Len(t) : t[k] = "}" /\ ClosesAt(t, k) > 0}
             IN  IF ends = {} THEN 0
                 ELSE ClosesAt(t, CHOOSE k \in ends : \A m \in ends : k <= m)

\* The leftmost match: [found, text].
RegexSearch(t) ==
    LET starts == {i \in 1..Len(t) : MatchEnd(t, i) > 0}
    IN  IF starts = {} THEN [found |-> FALSE, text |-> <<>>]
        ELSE LET i == CHOOSE i \in starts : \A m \in starts : i <= m
             IN  [found |-> TRUE, text |-> SubSeq(t, i, MatchEnd(t, i))]

\* extract_json_array: the decoded match, or None when nothing matches or
\* the match does not decode.
extract_json_array(raw_output) ==
    LET match == RegexSearch(raw_output)
    IN  IF match.found
        THEN LET r == JsonLoads(match.text)
             IN  IF r.ok THEN r.val ELSE PyNone
        ELSE PyNone

(***************************************************************************)
(* The host: command lookup, program files, the shell                      *)
(***************************************************************************)

\* The names `command -v` resolves on the host: program files and shell
\* builtins.  "frob" and the other words of the model are not among them.
Executables == {<<"ls">>, <<"pwd">>, <<"echo">>, <<"cd">>}

\* The names subprocess.run can launch directly: "cd" is a builtin only.
ProgramFiles == {<<"ls">>, <<"pwd">>, <<"echo">>}

\* The exit statuses a launched command may return.
ExitStatuses == {0, 1, 2}

\* The exit status of the shell for a command it cannot find.
NotFoundStatus == 127

\* The uncaught exceptions that end the process with a traceback.
Tracebacks ==
    {"IndexError", "KeyError", "TypeError", "AttributeError",
     "FileNotFoundError", "EOFError"}

(***************************************************************************)
(* command_exists, process_output                                          *)
(***************************************************************************)

CommandKey == <<"command">>

\* command_exists(cmd["command"]) for one element of the list: the
\* exception it raises ("" when none), in evaluation order.  tool says
\* whether the host can launch `command` as a program.
ElementRaises(cmd, tool) ==
    IF cmd.t # "dict" THEN "TypeError"
    ELSE IF ~HasKey(cmd, CommandKey) THEN "KeyError"
    ELSE IF DictGet(cmd, CommandKey).t # "str" THEN "AttributeError"
    ELSE IF Split(DictGet(cmd, CommandKey).s) = <<>> THEN "IndexError"
    ELSE IF ~tool THEN "FileNotFoundError"
    ELSE ""

\* command_exists(command): the first whitespace-separated token resolves.
command_exists(command) == Split(command)[1] \in Executables

\* [cmd for cmd in commands if command_exists(cmd["command"])], from
\* element i on: the exception that ends it ("" when none) and the list.
RECURSIVE ValidFrom(_, _, _)
ValidFrom(items, i, tool) ==
    IF i > Len(items) THEN [raised |-> "", items |-> <<>>]
    ELSE LET e == ElementRaises(items[i], tool)
         IN  IF e # "" THEN [raised |-> e, items |-> <<>>]
             ELSE LET rest == ValidFrom(items, i + 1, tool)
                      keep == command_exists(DictGet(items[i], CommandKey).s)
                  IN  [raised |-> rest.raised,
                       items  |-> IF rest.raised # "" THEN <<>>
                                  ELSE IF keep THEN <<items[i]>> \o rest.items
                                  ELSE rest.items]

\* A faulty variant of the filter: the survivors in reverse order, as a
\* filter that prepends each survivor would leave them.
ValidCommandsReversed(items, tool) ==
    LET v == ValidFrom(items, 1, tool)
    IN  [raised |-> v.raised,
         items  |-> [i \in 1..Len(v.items) |-> v.items[Len(v.items) + 1 - i]]]

\* The list comprehension of line 74.
ValidCommands(items, tool) == ValidFrom(items, 1, tool)

\* `not commands` for what extract_json_array returns.
Falsy(v) == v.t = "None" \/ (v.t = "list" /\ v.items = <<>>)

\* {"command": cmd}
Wrap(s) == PyDict(<<CommandKey>>, <<s>>)

\* Line 72: each string of the list wrapped, when all elements are strings.
WrapStrings(items) ==
    IF \A i \in 1..Len(items) : items[i].t = "str"
    THEN [i \in 1..Len(items) |-> Wrap(items[i])]
    ELSE items

\* Lines 67-72 on what extract_json_array returned: the candidate list and
\* whether the plaintext fallback was taken.
FromExtracted(raw_output, extracted) ==
    IF Falsy(extracted)
    THEN [fallback |-> TRUE,
          commands |-> PyList(WrapStrings(<<PyStr(Strip(raw_output))>>))]
    ELSE [fallback |-> FALSE,
          commands |-> PyList(WrapStrings(extracted.items))]

\* Lines 66-72.
Candidates(raw_output) ==
    FromExtracted(raw_output, extract_json_array(raw_output))

\* Lines 76-80 on the filtered list: None when it is empty.
Returned(c, v) ==
    [fallback |-> c.fallback,
     commands |-> c.commands,
     raised   |-> v.raised,
     valid    |-> IF v.raised # "" \/ v.items = <<>> THEN PyNone
                  ELSE PyList(v.items)]

\* Lines 74-80 on the candidates.
Filtered(c, tool) == Returned(c, ValidCommands(c.commands.items, tool))

\* process_output: the candidates, the exception raised ("" when none) and
\* the value returned (None when no candidate is valid).
process_output(raw_output, tool) == Filtered(Candidates(raw_output), tool)

(***************************************************************************)
(* present_menu                                                            *)
(***************************************************************************)

\* str.lower() on the lexemes of the menu inputs.
Lower(lex) == IF lex = "Q" THEN "q" ELSE lex

\* int(): the lexemes that are integer literals, and their values.
IntLexemes == {"-1", "0", "1", "2", "3", "4"}

IntOf(lex) ==
    CASE lex = "-1" -> 0 - 1
      [] lex = "0" -> 0
      [] lex = "1" -> 1
      [] lex = "2" -> 2
      [] lex = "3" -> 3
      [] lex = "4" -> 4

\* A faulty variant of present_menu: only the upper bound of the index is
\* checked, so a number below 1 indexes the list from its end.
present_menu_unchecked_low(commands, typed) ==
    LET choice == Strip(typed)
    IN  IF Len(choice) = 1 /\ Lower(choice[1]) = "q"
        THEN [exit |-> TRUE, code |-> 0, ended |-> "Quit", selected |-> <<>>]
        ELSE IF Len(choice) = 1 /\ choice[1] \in IntLexemes
        THEN LET idx == IntOf(choice[1]) - 1
                 n == Len(commands.items)
             IN  IF idx >= n
                 THEN [exit |-> TRUE, code |-> 1, ended |-> "InvalidSelection",
                       selected |-> <<>>]
                 ELSE IF idx < 0 - n
                 THEN [exit |-> TRUE, code |-> 1, ended |-> "IndexError",
                       selected |-> <<>>]
                 ELSE [exit |-> FALSE, code |-> 0, ended |-> "",
                       selected |-> DictGet(commands.items[IF idx < 0 THEN n + idx + 1
                                                           ELSE idx + 1], CommandKey).s]
        ELSE [exit |-> TRUE, code |-> 1, ended |-> "InvalidInput", selected |-> <<>>]

\* present_menu(commands) on the line the user typed: the command selected,
\* or how the process ends.
present_menu(commands, typed) ==
    LET choice == Strip(typed)
    IN  IF Len(choice) = 1 /\ Lower(choice[1]) = "q"
        THEN [exit |-> TRUE, code |-> 0, ended |-> "Quit", selected |-> <<>>]
        ELSE IF Len(choice) = 1 /\ choice[1] \in IntLexemes
        THEN LET idx == IntOf(choice[1]) - 1
             IN  IF idx < 0 \/ idx >= Len(commands.items)
                 THEN [exit |-> TRUE, code |-> 1, ended |-> "InvalidSelection",
                       selected |-> <<>>]
                 ELSE [exit |-> FALSE, code |-> 0, ended |-> "",
                       selected |-> DictGet(commands.items[idx + 1], CommandKey).s]
        ELSE [exit |-> TRUE, code |-> 1, ended |-> "InvalidInput", selected |-> <<>>]

(***************************************************************************)
(* is_command_valid, execute_command                                       *)
(***************************************************************************)

\* What the --help probe of is_command_valid can do on the host: "none"
\* (single-token command, no probe), exit "zero", exit "nonzero", or
\* "launchfail" (subprocess.run raises).
ProbeOutcomes(command) ==
    LET parts == Split(command)
    IN  IF Len(parts) <= 1 THEN {"none"}
        ELSE IF parts[1] \in ProgramFiles THEN {"zero", "nonzero"}
        ELSE {"launchfail"}

\* A faulty variant of is_command_valid: the probe's result is ignored.
is_command_valid_ignoring_probe(command, probe) == TRUE

\* is_command_valid(command), given what its probe did.
is_command_valid(command, probe) ==
    IF Len(Split(command)) > 1 THEN probe = "zero" ELSE TRUE

\* What subprocess.run(command, shell=True) can do: raise, or return the
\* shell's exit status (127 when the shell cannot find the command).
ShellOutcomes(command) ==
    LET parts == Split(command)
        codes == IF parts = <<>> THEN {0}
                 ELSE IF parts[1] \in Executables THEN ExitStatuses
                 ELSE {NotFoundStatus}
    IN  {[shell |-> "raised", returncode |-> 0]}
        \cup {[shell |-> "exited", returncode |-> rc] : rc \in codes}

\* The captured output and the exception text, as opaque texts.
StdoutText == "<stdout>"
StderrText == "<stderr>"
ExceptionText == "<exception>"

\* The entry execute_command appends (lines 114 and 122).
HistoryEntry(command, run) ==
    IF run.shell = "raised"
    THEN [command |-> command, status |-> "error", output |-> ExceptionText]
    ELSE [command |-> command,
          status  |-> IF run.returncode = 0 THEN "success" ELSE "failed",
          output  |-> IF run.returncode # 0 THEN StderrText ELSE StdoutText]

NoRun == [command |-> <<>>, probe |-> "none", shell |-> "none", returncode |-> 0]

(***************************************************************************)
(* query_ollama: the history context of the prompt                         *)
(***************************************************************************)

HistoryWindow == 5

\* A faulty variant of the slice: command_history[:5], the oldest entries.
OldestEntries(history) ==
    SubSeq(history, 1, IF Len(history) > HistoryWindow THEN HistoryWindow ELSE Len(history))

\* command_history[-5:]
RecentEntries(history) ==
    SubSeq(history,
           IF Len(history) > HistoryWindow THEN Len(history) - HistoryWindow + 1 ELSE 1,
           Len(history))

\* f"- {entry['command']} (Status: {entry['status']})"
HistoryLine(entry) ==
    <<"-", " ">> \o entry.command \o <<" ", "(Status:", " ", entry.status, ")">>

\* "\n".join(lines)
RECURSIVE JoinLines(_)
JoinLines(lines) ==
    IF lines = <<>> THEN <<>>
    ELSE IF Len(lines) = 1 THEN lines[1]
    ELSE lines[1] \o <<"\n">> \o JoinLines(Tail(lines))

NoPreviousCommands == <<"No", " ", "previous", " ", "commands">>

\* What the prompt holds under "Previous command history:".
HistoryContext(history) ==
    LET recent == RecentEntries(history)
        history_context == JoinLines([i \in 1..Len(recent) |-> HistoryLine(recent[i])])
    IN  IF history_context # <<>> THEN history_context ELSE NoPreviousCommands

(***************************************************************************)
(* The inputs: what the backend prints, what the user types                *)
(***************************************************************************)

\* The longest JSON array the backend prints.
MaxArray == 2

\* The command texts the backend proposes.
BackendCommands ==
    {<<"ls">>, <<"frob">>, <<"ls", " ", "-la">>, <<"cd", " ", "tmp">>,
     <<"echo", " ", "}", "]">>}

Quote == "\""

\* {"command": "<cmd>"}
ObjectText(cmd) ==
    <<"{", Quote, "command", Quote, ":", " ", Quote>> \o cmd \o <<Quote, "}">>

\* "<cmd>"
StringText(cmd) == <<Quote>> \o cmd \o <<Quote>>

ElementText(kind, cmd) ==
    IF kind = "objects" THEN ObjectText(cmd) ELSE StringText(cmd)

RECURSIVE ElementsText(_, _)
ElementsText(kind, cmds) ==
    IF cmds = <<>> THEN <<>>
    ELSE IF Len(cmds) = 1 THEN ElementText(kind, cmds[1])
    ELSE ElementText(kind, cmds[1]) \o <<",", " ">> \o ElementsText(kind, Tail(cmds))

\* The text of a JSON array of the commands, compact or padded inside the
\* brackets.
ArrayText(kind, cmds, pad) ==
    <<"[">> \o pad \o ElementsText(kind, cmds) \o pad \o <<"]">>

Pads == {<<>>, <<"\n", " ">>}

CommandLists == UNION {[1..n -> BackendCommands] : n \in 0..MaxArray}

\* The commentary the backend may put around the array.
Prefixes == {<<>>, <<"Sure", " ">>, <<"[", "note", "]", " ">>}
Suffixes == {<<>>, <<" ", "ok">>}

\* Responses that hold no array.
PlainTexts ==
    {<<>>, <<" ", "\n">>, <<"ls">>, <<" ", "ls", " ", "-la", "\n">>,
     <<"remove", " ", "all", " ", "temp", " ", "files">>,
     <<"ls", "\n", "pwd">>}

\* Arrays of other shapes: no "command" key, a mixed array, a command that
\* is not a string, an empty command, an unclosed object.
OddTexts ==
    {<<"[", "{", Quote, "cmd", Quote, ":", Quote, "ls", Quote, "}", "]">>,
     <<"[">> \o ObjectText(<<"ls">>) \o <<",", Quote, "pwd", Quote, "]">>,
     <<"[", "{", Quote, "command", Quote, ":", "[", Quote, "ls", Quote, "]", "}", "]">>,
     <<"[">> \o ObjectText(<<>>) \o <<"]">>,
     <<"[", "{", Quote, "command", Quote, ":", Quote, "ls", Quote, "]">>}

\* result.stdout of the backend.
RawOutputs ==
    {p \o ArrayText(k, c, pad) \o s :
        p \in Prefixes, k \in {"objects", "strings"}, c \in CommandLists,
        pad \in Pads, s \in Suffixes}
    \cup PlainTexts \cup OddTexts

\* The lines the user may type at the menu.
MenuInputs ==
    {<<"q">>, <<"Q">>, <<" ", "q", " ">>, <<"0">>, <<"1">>, <<" ", "2">>, <<"3">>,
     <<"4">>, <<"-1">>, <<"ls">>, <<"1", " ", "2">>, <<>>}

(***************************************************************************)
(* State                                                                   *)
(***************************************************************************)

VARIABLES
    pc,               \* where the process is
    host_tool,        \* whether the host can launch `command` as a program
    raw_output,       \* main's raw_output
    fallback,         \* whether process_output took the plaintext fallback
    commands,         \* process_output's commands before filtering
    valid_commands,   \* what process_output returned
    choice,           \* the line typed at the menu
    selected_command, \* what present_menu returned
    command_history,  \* the global command_history
    last_run,         \* what the latest execute_command launched
    prompt_history,   \* the history context of the latest prompt
    queries,          \* calls of the backend
    prompts,          \* calls of input()
    executions,       \* calls of execute_command
    ended,            \* how the process ended ("" while it runs)
    exit_code         \* its exit status (-1 while it runs)

vars ==
    <<pc, host_tool, raw_output, fallback, commands, valid_commands, choice,
      selected_command, command_history, last_run, prompt_history, queries,
      prompts, executions, ended, exit_code>>

\* The state of the module once imported.
Loaded ==
    /\ raw_output = <<>>
    /\ fallback = FALSE
    /\ commands = PyNone
    /\ valid_commands = PyNone
    /\ choice = <<>>
    /\ selected_command = <<>>
    /\ command_history = <<>>
    /\ last_run = NoRun
    /\ prompt_history = <<>>
    /\ queries = 0
    /\ prompts = 0
    /\ executions = 0
    /\ ended = ""
    /\ exit_code = -1

Init ==
    /\ pc = "main"
    /\ host_tool \in BOOLEAN
    /\ Loaded

\* sys.exit(code), or an uncaught exception (exit status 1).
Exit(how, code) ==
    /\ pc' = "exited"
    /\ ended' = how
    /\ exit_code' = code

(***************************************************************************)
(* main                                                                    *)
(***************************************************************************)

\* raw_output = query_ollama(query)
QueryOllama ==
    /\ pc = "main"
    /\ queries' = queries + 1
    /\ prompt_history' = HistoryContext(command_history)
    /\ \/ \E raw \in RawOutputs :
            /\ raw_output' = raw
            /\ pc' = "queried"
            /\ UNCHANGED <<ended, exit_code>>
       \/ Exit("BackendFailed", 1) /\ UNCHANGED raw_output
       \/ Exit("FileNotFoundError", 1) /\ UNCHANGED raw_output
    /\ UNCHANGED <<host_tool, fallback, commands, valid_commands, choice,
                   selected_command, command_history, last_run, prompts, executions>>

\* commands = process_output(raw_output); if not commands: sys.exit(1)
ProcessOutput ==
    /\ pc = "queried"
    /\ LET r == process_output(raw_output, host_tool)
       IN  /\ fallback' = r.fallback
           /\ commands' = r.commands
           /\ valid_commands' = r.valid
           /\ IF r.raised # "" THEN Exit(r.raised, 1)
              ELSE IF r.valid = PyNone THEN Exit("NoValidCommands", 1)
              ELSE pc' = "menu" /\ UNCHANGED <<ended, exit_code>>
    /\ UNCHANGED <<host_tool, raw_output, choice, selected_command, command_history,
                   last_run, prompt_history, queries, prompts, executions>>

\* selected_command = present_menu(commands)
PresentMenu ==
    /\ pc = "menu"
    /\ prompts' = prompts + 1
    /\ \/ \E typed \in MenuInputs :
            LET m == present_menu(valid_commands, typed)
            IN  /\ choice' = typed
                /\ IF m.exit
                   THEN Exit(m.ended, m.code) /\ UNCHANGED selected_command
                   ELSE /\ selected_command' = m.selected
                        /\ pc' = "execute"
                        /\ UNCHANGED <<ended, exit_code>>
       \/ Exit("EOFError", 1) /\ UNCHANGED <<choice, selected_command>>
    /\ UNCHANGED <<host_tool, raw_output, fallback, commands, valid_commands,
                   command_history, last_run, prompt_history, queries, executions>>

\* A faulty variant of the recording: a run that raised is not recorded.
RecordedUnlessRaised(history, command, run) ==
    IF run.shell = "raised" THEN history
    ELSE Append(history, HistoryEntry(command, run))

\* What a run that was launched leaves in the history.
Recorded(history, command, run) == Append(history, HistoryEntry(command, run))

\* execute_command(command)
ExecuteCommand(command) ==
    /\ executions' = executions + 1
    /\ \E probe \in ProbeOutcomes(command) :
         IF ~is_command_valid(command, probe)
         THEN /\ command_history' = command_history
              /\ last_run' = [command |-> command, probe |-> probe,
                              shell |-> "none", returncode |-> 0]
         ELSE \E run \in ShellOutcomes(command) :
              /\ command_history' = Recorded(command_history, command, run)
              /\ last_run' = [command |-> command, probe |-> probe,
                              shell |-> run.shell, returncode |-> run.returncode]

\* execute_command(selected_command), and main returns.
MainExecute ==
    /\ pc = "execute"
    /\ ExecuteCommand(selected_command)
    /\ Exit("Done", 0)
    /\ UNCHANGED <<host_tool, raw_output, fallback, commands, valid_commands, choice,
                   selected_command, prompt_history, queries, prompts>>

Next == QueryOllama \/ ProcessOutput \/ PresentMenu \/ MainExecute

Spec == Init /\ [][Next]_vars

(***************************************************************************)
(* execute_command called directly, on any command                         *)
(***************************************************************************)

\* The calls of one run.
MaxExecRuns == 2

ExecCommands ==
    {<<>>, <<"ls">>, <<"frob">>, <<"ls", " ", "-la">>, <<"cd", " ", "tmp">>,
     <<"frob", " ", "it">>, <<"cd">>}

InitExec ==
    /\ pc = "call"
    /\ host_tool = TRUE
    /\ Loaded

CallExecute ==
    /\ pc = "call"
    /\ executions < MaxExecRuns
    /\ \E c \in ExecCommands : ExecuteCommand(c)
    /\ UNCHANGED <<pc, host_tool, raw_output, fallback, commands, valid_commands,
                   choice, selected_command, prompt_history, queries, prompts, ended,
                   exit_code>>

NextExec == CallExecute

SpecExec == InitExec /\ [][NextExec]_vars

(***************************************************************************)
(* A session: the prompt's history context after each executed command     *)
(***************************************************************************)

\* The commands of one session.
MaxHistory == 7

SessionCommands == {<<"ls">>, <<"frob">>}

InitSession ==
    /\ pc = "prompt"
    /\ host_tool = TRUE
    /\ Loaded

\* query_ollama builds the prompt.
SessionQuery ==
    /\ pc = "prompt"
    /\ queries' = queries + 1
    /\ prompt_history' = HistoryContext(command_history)
    /\ pc' = "run"
    /\ UNCHANGED <<host_tool, raw_output, fallback, commands, valid_commands,
                   choice, selected_command, command_history, last_run, prompts,
                   executions, ended, exit_code>>

SessionExecute ==
    /\ pc = "run"
    /\ Len(command_history) < MaxHistory
    /\ \E c \in SessionCommands : ExecuteCommand(c)
    /\ pc' = "prompt"
    /\ UNCHANGED <<host_tool, raw_output, fallback, commands, valid_commands,
                   choice, selected_command, prompt_history, queries, prompts, ended,
                   exit_code>>

NextSession == SessionQuery \/ SessionExecute

SpecSession == InitSession /\ [][NextSession]_vars

(***************************************************************************)
(* Properties                                                              *)
(***************************************************************************)

\* sub occurs in t.
Contains(t, sub) ==
    \E i \in 1..(Len(t) - Len(sub) + 1) : SubSeq(t, i, i + Len(sub) - 1) = sub

\* The candidate list [{"command": c} for c in cmds].
CandidateList(cmds) == PyList([i \in 1..Len(cmds) |-> Wrap(PyStr(cmds[i]))])

\* process_output has built its candidate list.
Processed == commands # PyNone

\* The exceptions process_output can end with (input() raises EOFError).
ProcessOutputRaises == Tracebacks \ {"EOFError"}

\* C1: a response that holds a JSON array of {"command": s} objects, with
\* any text around it and any characters in the commands, yields exactly
\* the array's commands, one candidate each, in order, and the plaintext
\* fallback is not taken.
C1_ObjectArrayExtracted ==
    Processed =>
        \A cmds \in CommandLists \ {<<>>} : \A pad \in Pads :
            Contains(raw_output, ArrayText("objects", cmds, pad))
                => ~fallback /\ commands = CandidateList(cmds)

\* C2: a response that holds a JSON array of plain strings yields one
\* candidate per string, in order, and not one candidate for the whole
\* response.
C2_StringArrayExtracted ==
    Processed =>
        \A cmds \in CommandLists \ {<<>>} : \A pad \in Pads :
            Contains(raw_output, ArrayText("strings", cmds, pad))
                => commands = CandidateList(cmds)

\* C3: a response that is, or holds, an empty JSON array ends in a hard
\* failure and never takes the plaintext fallback.
C3_EmptyArrayIsHardFailure ==
    Processed /\ (\E pad \in Pads : Contains(raw_output, ArrayText("objects", <<>>, pad)))
        => ~fallback /\ pc = "exited" /\ exit_code = 1

\* C4: on a host whose lookup works, a response with no array in it (the
\* empty and the whitespace-only response included) takes the fallback,
\* which raises nothing and yields the one candidate that is the trimmed
\* response.
C4_FallbackNeverRaises ==
    Processed /\ host_tool /\ (\A i \in 1..Len(raw_output) : raw_output[i] # "[")
        => /\ fallback
           /\ commands = CandidateList(<<Strip(raw_output)>>)
           /\ ended \notin ProcessOutputRaises

\* The first whitespace-separated token of a candidate's command.
FirstToken(cmd) == Split(DictGet(cmd, CommandKey).s)[1]

\* out is the subsequence of in made of the candidates whose first token
\* resolves on the host, in the order of in.
ResolvingSubsequence(in, out) ==
    \E f \in [1..Len(out) -> 1..Len(in)] :
        /\ \A j, k \in 1..Len(out) : j < k => f[j] < f[k]
        /\ \A k \in 1..Len(out) : out[k] = in[f[k]]
        /\ \A i \in 1..Len(in) :
               (\E k \in 1..Len(out) : f[k] = i) <=> FirstToken(in[i]) \in Executables

\* The list the filter of process_output left (None is returned for []).
Survivors == IF valid_commands = PyNone THEN <<>> ELSE valid_commands.items

ExecutorNotRun == executions = 0 /\ last_run = NoRun /\ command_history = <<>>

\* The line typed is the quit key.
TypedQuit == Strip(choice) \in {<<"q">>, <<"Q">>}

\* The line typed is the number of a menu entry.
MenuNumbers == <<"1", "2", "3", "4">>

TypedEntry ==
    \E k \in 1..Len(Survivors) : k <= Len(MenuNumbers) /\ Strip(choice) = <<MenuNumbers[k]>>

\* C9: a backend failure (the process ends before process_output has any
\* response), an empty set of valid candidates, and a menu line that is
\* neither the quit key nor the number of an entry each end
\* the process with exit status 1, the backend called once, the menu shown
\* at most once, the executor not run and the history unchanged; the quit
\* key ends it (status 0) before the executor runs.
C9_FailFastBeforeExecution ==
    /\ queries <= 1 /\ prompts <= 1
    /\ pc = "exited" =>
        /\ ~Processed => exit_code = 1 /\ ExecutorNotRun /\ prompts = 0
        /\ Processed /\ Survivors = <<>> => exit_code = 1 /\ ExecutorNotRun /\ prompts = 0
        /\ prompts = 1 /\ ended # "EOFError" /\ ~TypedQuit /\ ~TypedEntry
               => exit_code = 1 /\ ExecutorNotRun
        /\ prompts = 1 /\ ended # "EOFError" /\ TypedQuit
               => exit_code = 0 /\ ExecutorNotRun

\* C9's case: the process ended on a menu number that is out of range.
C9_Witness ==
    /\ pc = "exited"
    /\ prompts = 1
    /\ Strip(choice) = <<"0">>
    /\ exit_code = 1
    /\ ExecutorNotRun

\* The latest execute_command got past is_command_valid.
ProbePassed(run) == run.probe \in {"none", "zero"}

\* C7 as stated: a selected multi-token command whose --help probe exits
\* non-zero or cannot be launched is still run by the shell.
C7_RunDespiteFailingProbe ==
    pc = "exited" /\ ended = "Done" /\ last_run.probe \in {"nonzero", "launchfail"}
        => last_run.shell # "none"

\* C7 amended: the selected command is run by the shell exactly when it is
\* a single token or its --help probe exits 0; when the probe exits
\* non-zero or cannot be launched the command is skipped: not run and not
\* recorded.
C7_SkippedExactlyOnFailingProbe ==
    pc = "exited" /\ ended = "Done" =>
        /\ last_run.command = selected_command
        /\ last_run.probe = "none" <=> Len(Split(selected_command)) <= 1
        /\ last_run.shell = "none" <=> last_run.probe \in {"nonzero", "launchfail"}
        /\ last_run.shell = "none" => command_history = <<>>

\* C7's case: a selected command whose probe could not be launched.
C7_Witness ==
    /\ pc = "exited" /\ ended = "Done"
    /\ selected_command = <<"cd", " ", "tmp">>
    /\ last_run.probe = "launchfail"
    /\ last_run.shell = "none"

\* An entry for the command, with any status and output.
EntriesFor(command) ==
    {[command |-> command, status |-> st, output |-> out] :
        st \in {"success", "failed", "error"},
        out \in {StdoutText, StderrText, ExceptionText}}

\* C6 as stated: every call of execute_command on a command that resolves
\* appends exactly one entry for it, whatever the outcome.
C6_EveryCallAppendsOne ==
    [][(executions' = executions + 1
          /\ Split(last_run'.command) # <<>>
          /\ command_exists(last_run'.command))
        => \E e \in EntriesFor(last_run'.command) :
               command_history' = Append(command_history, e)]_vars

\* C6 amended: a call of execute_command that gets past is_command_valid
\* appends exactly one entry for its command at the end of the history,
\* whatever the outcome (success, failed, error); a call that
\* is_command_valid rejects leaves the history unchanged; no call appends
\* more than one entry or changes an earlier one.
C6_OneEntryPerRunThatPassedTheProbe ==
    [][executions' = executions + 1
        => IF ProbePassed(last_run')
           THEN \E e \in EntriesFor(last_run'.command) :
                    command_history' = Append(command_history, e)
           ELSE command_history' = command_history]_vars

\* C6's case: two calls, the first recorded as an error, the second too.
C6_Witness ==
    /\ executions = 2
    /\ Len(command_history) = 2
    /\ command_history[1].status = "error"
    /\ command_history[2].command = <<"ls", " ", "-la">>
    /\ last_run.probe = "zero"

\* C8: the entry recorded for a run has status success and the captured
\* stdout exactly when the command exits 0, failed and the captured stderr
\* exactly when it exits non-zero, error and the failure's text exactly
\* when it cannot be launched; a command whose binary the host does not
\* have is recorded as error, not failed.
C8_StatusOfRecordedEntry ==
    executions > 0 /\ last_run.shell # "none" =>
        LET e == command_history[Len(command_history)]
            tokens == Split(e.command)
        IN  /\ e.status = "success"
                <=> last_run.shell = "exited" /\ last_run.returncode = 0
            /\ e.status = "failed"
                <=> last_run.shell = "exited" /\ last_run.returncode # 0
            /\ e.status = "error" <=> last_run.shell = "raised"
            /\ e.status = "success" => e.output = StdoutText
            /\ e.status = "failed" => e.output = StderrText
            /\ e.status = "error" => e.output = ExceptionText
            /\ tokens # <<>> /\ tokens[1] \notin Executables => e.status = "error"

\* The lines of a text.
RECURSIVE SplitLines(_)
SplitLines(t) ==
    IF \E i \in 1..Len(t) : t[i] = "\n"
    THEN LET i == CHOOSE i \in 1..Len(t) :
                      t[i] = "\n" /\ \A j \in 1..(i - 1) : t[j] # "\n"
         IN  <<SubSeq(t, 1, i - 1)>> \o SplitLines(SubSeq(t, i + 1, Len(t)))
    ELSE <<t>>

====
